---- MODULE Spec2Model ----
(***************************************************************************)
(* Playback-synchronization engine of the YouTube dubbing extension        *)
(* (class DubbingManager).  The model follows the latest revision of the   *)
(* content script: src/unnamed/part_001 lines 323-1119, whose engine       *)
(* functions are line-for-line those of src/extension/content.js plus      *)
(* stopDubbing, the self-cancelling background timer and the allProcessed  *)
(* short-cut of onTimeUpdate.                                              *)
(*                                                                         *)
(* Time is counted in tenths of a second (0.3 s = 3, 10 s = 100).          *)
(* An async function is cut at each await that really suspends (the two    *)
(* network calls); the part before the await and each continuation is one  *)
(* atomic step of the single-threaded event loop.  DOM events (video play  *)
(* and pause, audio ended) are queued by the browser and delivered by      *)
(* separate steps.                                                         *)
(***************************************************************************)
EXTENDS Integers, Sequences, FiniteSets, Bags, TLC

VARIABLES
    url,                \* video id in the page address (?v=)
    currentVideoId,     \* this.currentVideoId
    subtitles,          \* this.subtitles, named by the video it was fetched for
    isDubbing,          \* this.isDubbing
    isBuffering,        \* this.isBuffering
    nextFetchIndex,     \* this.nextFetchIndex
    processedIds,       \* this.processedIds
    audioCache,         \* this.audioCache: id -> clip
    audioQueue,         \* this.audioQueue
    currentAudioPlayer, \* this.currentAudioPlayer
    detachedSounding,   \* unreferenced Audio elements that are still sounding
    detachedEnded,      \* queued ended events of unreferenced Audio elements
    videoPaused,        \* video.paused
    pendingEvents,      \* queued, undelivered play/pause events of the video
    currentTime,        \* video.currentTime
    tasks,              \* suspended async calls (network requests in flight)
    timers,             \* active setInterval timers of startBackgroundBuffering
    staleTimers,        \* history: how many of them were set before the last stop or reset
    hung,               \* the event loop is stuck in a loop that never yields
    seekTarget,         \* history: position of the last seek of this session
    lastHanded,         \* history: id of the last clip handed to the audio controller
    controlShown,       \* the floating control with the Stop button is visible
    userEvents,         \* history: number of user commands so far
    balance,            \* the popup's balance slider, in percent (originalVolume of the messages)
    videoVolume,        \* video.volume, in percent
    savedOriginalVolume,\* this.savedOriginalVolume, in percent
    volumeBefore        \* history: video.volume before the first start since the last stop

vars == <<url, currentVideoId, subtitles, isDubbing, isBuffering, nextFetchIndex,
          processedIds, audioCache, audioQueue, currentAudioPlayer, detachedSounding,
          detachedEnded, videoPaused, pendingEvents, currentTime, tasks, timers,
          staleTimers, hung, seekTarget, lastHanded, controlShown, userEvents,
          balance, videoVolume, savedOriginalVolume, volumeBefore>>

\* the state of the audio balance
volumeVars == <<balance, videoVolume, savedOriginalVolume, volumeBefore>>

(***************************************************************************)
(* Bounds of the model                                                     *)
(***************************************************************************)
MaxUserEvents == 2
MaxSessionEvents == 3
MaxLongVideoEvents == 1
MaxSeekWindowEvents == 3
MaxRateEvents == 2
MaxFullEvents == 2
MaxVolumeEvents == 3
MaxInFlight == 2
MaxPendingEvents == 1

(***************************************************************************)
(* Program constants (tenths of a second, or counts)                       *)
(***************************************************************************)
MIN_BUFFER_SEC == 100
MAX_BATCH_SIZE == 10
MAX_DURATION == 300
PREBUFFER_SEGMENTS == 30
FILL_BATCH == 10
BACKGROUND_BATCH == 10
SEEK_WINDOW == 20
LEAD_TOLERANCE == 3
MIN_SLOT == 5
RATE_MIN_SLOT == 3
MAX_RATE == 2
\* volumes are percentages of the full volume
FULL_VOLUME == 100

(***************************************************************************)
(* Input data: three videos and the subtitles GET /subtitles returns for   *)
(* them, ordered by start, no overlaps, one gap (500..520 in video A).     *)
(* Video C has more segments than one batch of the initial fill holds.     *)
(***************************************************************************)
Videos == {"A", "B", "C", "D", "S"}
NoVideo == "none"
None == [none |-> TRUE]

SubsOf(v) ==
    CASE v = "A" -> << [start |-> 0,   end |-> 200],
                       [start |-> 200, end |-> 500],
                       [start |-> 520, end |-> 900] >>
      [] v = "B" -> << [start |-> 0,   end |-> 350],
                       [start |-> 350, end |-> 600] >>
      [] v = "C" -> [i \in 1 .. (FILL_BATCH + 1) |->
                        [start |-> 100 * (i - 1), end |-> 100 * i]]
      [] v = "D" -> [i \in 1 .. (SEEK_WINDOW + 2) |->
                        [start |-> 100 * (i - 1), end |-> 100 * i]]
      [] v = "S" -> << [start |-> 0,  end |-> 20],
                       [start |-> 20, end |-> 50],
                       [start |-> 50, end |-> 90] >>
      [] OTHER   -> << >>

Positions == {0, 198, 510, 950}

\* this.subtitles.length
NumSubs(v) == Len(SubsOf(v))

Min(a, b) == IF a < b THEN a ELSE b
Max(a, b) == IF a > b THEN a ELSE b

\* audioData of sendBatchToServer: the id and the slot echoed by the server
Clip(i, v) == [id |-> i, vid |-> v]
ClipStart(c) == SubsOf(c.vid)[c.id + 1].start
ClipEnd(c) == SubsOf(c.vid)[c.id + 1].end

(***************************************************************************)
(* Array helpers                                                           *)
(***************************************************************************)
\* the key a comparator subtracts: parseInt(a.id), or a.start
SortKey(c, byId) == IF byId THEN c.id ELSE ClipStart(c)

RECURSIVE InsertByKey(_, _, _)
\* insert x after every element whose key is <= its key: one step of a stable sort
InsertByKey(q, x, byId) ==
    IF q = << >> THEN << x >>
    ELSE IF SortKey(x, byId) < SortKey(Head(q), byId) THEN << x >> \o q
    ELSE << Head(q) >> \o InsertByKey(Tail(q), x, byId)

RECURSIVE StableSort(_, _)
\* Array.prototype.sort with comparator (a, b) => key(a) - key(b); stable
StableSort(q, byId) ==
    IF q = << >> THEN << >>
    ELSE InsertByKey(StableSort(SubSeq(q, 1, Len(q) - 1), byId), q[Len(q)], byId)

\* this.audioQueue.sort((a, b) => a.start - b.start)
SortByStart(q) == StableSort(q, FALSE)

\* this.audioQueue.sort((a, b) => parseInt(a.id) - parseInt(b.id))
SortById(q) == StableSort(q, TRUE)

RECURSIVE SetToSeq(_)
\* the elements of a set of ids in ascending order
SetToSeq(S) ==
    IF S = {} THEN << >>
    ELSE LET m == CHOOSE x \in S : \A y \in S : x <= y
         IN << m >> \o SetToSeq(S \ {m})

(***************************************************************************)
(* Batch assembly                                                          *)
(***************************************************************************)
RECURSIVE BatchLoopAll(_, _, _, _, _)
\* variant: the loop does not consult processedIds
BatchLoopAll(i, batch, count, v, processed) ==
    IF Cardinality(batch) < count /\ i < NumSubs(v)
    THEN BatchLoopAll(i + 1, batch \cup {i}, count, v, processed)
    ELSE [batch |-> batch, i |-> i]

RECURSIVE BatchLoop(_, _, _, _, _)
\* the while loop of bufferBatch: collects up to count unprocessed ids from i on
BatchLoop(i, batch, count, v, processed) ==
    IF Cardinality(batch) < count /\ i < NumSubs(v)
    THEN BatchLoop(i + 1, IF i \in processed THEN batch ELSE batch \cup {i},
                   count, v, processed)
    ELSE [batch |-> batch, i |-> i]

RECURSIVE SafeLoop(_, _, _, _, _)
\* the while loop of bufferUntilSafe: bounded by duration and by batch size
SafeLoop(i, batch, durationBuffered, v, processed) ==
    IF durationBuffered < MAX_DURATION /\ Cardinality(batch) < MAX_BATCH_SIZE
       /\ i < NumSubs(v)
    THEN LET sub == SubsOf(v)[i + 1]
         IN IF i \in processed
            THEN SafeLoop(i + 1, batch, durationBuffered, v, processed)
            ELSE SafeLoop(i + 1, batch \cup {i},
                          durationBuffered + (sub.end - sub.start), v, processed)
    ELSE [batch |-> batch, i |-> i]

(***************************************************************************)
(* Suspended async calls.  kind: "subs" = startProcess awaiting            *)
(* fetchSubtitles; "fill" = the initial fill loop of startProcess awaiting *)
(* bufferBatch; "timer" = a background timer callback awaiting             *)
(* bufferBatch; "safe" = bufferUntilSafe, called by onSeek, awaiting       *)
(* sendBatchToServer; "low" = the same, called by onTimeUpdate.            *)
(* vid: the video the request was made for; batch: requested ids; i: the   *)
(* loop variable i of the assembling function; min: MIN_BUFFER_SEGMENTS of *)
(* the fill loop; stale: a reset or stop happened since the request.       *)
(***************************************************************************)
Task(kind, v, batch, i, min) ==
    [kind |-> kind, vid |-> v, batch |-> batch, i |-> i, min |-> min, stale |-> FALSE]

\* the bag of suspended calls: one more, one less
AddTask(ts, t) == ts (+) SetToBag({t})
DropTask(ts, t) == ts (-) SetToBag({t})

\* the requests POST /synthesize that are outstanding
SynthTasks == {t \in BagToSet(tasks) : t.kind # "subs"}
RECURSIVE SumCopies(_, _)
SumCopies(S, b) ==
    IF S = {} THEN 0
    ELSE LET t == CHOOSE x \in S : TRUE
         IN CopiesIn(t, b) + SumCopies(S \ {t}, b)

\* how many of them
Outstanding == SumCopies(SynthTasks, tasks)

MarkStale(ts) ==
    LET S == {[t EXCEPT !.stale = TRUE] : t \in BagToSet(ts)}
    IN [s \in S |-> CopiesIn(s, ts) + CopiesIn([s EXCEPT !.stale = FALSE], ts)]

(***************************************************************************)
(* Audio elements.  paused and ended are the attributes of the element;    *)
(* pendingEnded says that its ended event is queued and not yet delivered; *)
(* failed says that its source could not be loaded or decoded: the promise *)
(* of play() was rejected, the element is silent and never ends, and its   *)
(* paused attribute is still false.                                        *)
(***************************************************************************)
\* audio.duration before the metadata is loaded (NaN)
NoDuration == 0

\* the durations (tenths of a second) of the synthesized audio
Durations == {20, 30, 50}

\* variant: the speed-up has no upper limit
PlaybackRateUncapped(duration, maxDuration) ==
    IF duration > maxDuration /\ maxDuration > RATE_MIN_SLOT
    THEN <<duration, maxDuration>>
    ELSE <<1, 1>>

\* audio.onloadedmetadata: the playbackRate of the element as a fraction
\* <<numerator, denominator>>; Math.min(audio.duration / maxDuration, 2.0)
\* when the condition holds, the default rate 1 otherwise
PlaybackRate(duration, maxDuration) ==
    IF duration > maxDuration /\ maxDuration > RATE_MIN_SLOT
    THEN IF duration <= MAX_RATE * maxDuration
         THEN <<duration, maxDuration>>
         ELSE <<MAX_RATE, 1>>
    ELSE <<1, 1>>

\* new Audio(url) followed by play(): paused is false at once; slot = maxDuration
Player(c, slot) ==
    [clip |-> c, slot |-> slot, paused |-> FALSE, ended |-> FALSE, pendingEnded |-> FALSE,
     failed |-> FALSE, duration |-> NoDuration, rate |-> <<1, 1>>]

\* play() refused at once (NotAllowedError): the element stays paused
Refused(a) == [a EXCEPT !.paused = TRUE]

\* the source turns out to be unplayable after play() returned
Errored(a) == [a EXCEPT !.failed = TRUE]

Sounding(a) == a # None /\ ~a.paused /\ ~a.ended /\ ~a.failed

\* What an element contributes once the manager drops its reference: it may
\* go on sounding, and its queued ended event is still delivered.
SoundingCount(a) == IF Sounding(a) THEN 1 ELSE 0
EndedCount(a) == IF a # None /\ a.pendingEnded THEN 1 ELSE 0

\* if (this.currentAudioPlayer) { this.currentAudioPlayer.pause(); this.currentAudioPlayer = null; }
\* gives the element as it is left behind
StopCurrent(cur) == IF cur = None THEN None ELSE [cur EXCEPT !.paused = TRUE]

(***************************************************************************)
(* The video element                                                       *)
(***************************************************************************)
\* the oldest queued event: play and pause events alternate and the newest
\* one corresponds to the present value of video.paused
OldestEvent ==
    IF (pendingEvents % 2 = 1) = videoPaused THEN "pause" ELSE "play"

CanQueueEvent == pendingEvents < MaxPendingEvents

(***************************************************************************)
(* Segment ids and the cache                                               *)
(***************************************************************************)
\* the segment ids of the longest video
Ids == 0 .. (Max(Max(NumSubs("A"), NumSubs("B")), Max(NumSubs("C"), NumSubs("D"))) - 1)
EmptyCache == [i \in Ids |-> None]
CachedIds == {i \in Ids : audioCache[i] # None}

\* the balance slider stands at 100% and the video plays at full volume
VolumeUntouched ==
    /\ balance = FULL_VOLUME
    /\ videoVolume = FULL_VOLUME
    /\ savedOriginalVolume = FULL_VOLUME
    /\ volumeBefore = FULL_VOLUME

Init ==
    /\ url = "A"
    /\ currentVideoId = NoVideo
    /\ subtitles = NoVideo
    /\ isDubbing = FALSE
    /\ isBuffering = FALSE
    /\ nextFetchIndex = 0
    /\ processedIds = {}
    /\ audioCache = EmptyCache
    /\ audioQueue = << >>
    /\ currentAudioPlayer = None
    /\ detachedSounding = 0
    /\ detachedEnded = 0
    /\ videoPaused = FALSE
    /\ pendingEvents = 0
    /\ currentTime = 0
    /\ tasks = EmptyBag
    /\ timers = 0
    /\ staleTimers = 0
    /\ hung = FALSE
    /\ seekTarget = -1
    /\ lastHanded = -1
    /\ controlShown = FALSE
    /\ userEvents = 0
    /\ VolumeUntouched

(***************************************************************************)
(* sendBatchToServer: the effect of a response on queue, processedIds and  *)
(* cache.  A failed request (catch branch) changes nothing.                *)
(***************************************************************************)
RECURSIVE ClipsOf(_, _)
ClipsOf(idSeq, v) ==
    IF idSeq = << >> THEN << >>
    ELSE << Clip(Head(idSeq), v) >> \o ClipsOf(Tail(idSeq), v)

\* the forEach over data.results (push) followed by the sort by start
QueueAfterResponse(q, batch, v) == SortByStart(q \o ClipsOf(SetToSeq(batch), v))

\* variant: the ids of the response are not recorded
ProcessedWithoutBatch(proc, batch) == proc

\* this.processedIds.add(parseInt(item.id)) for every item
ProcessedAfterResponse(proc, batch) == proc \cup batch

CacheAfterResponse(cache, batch, v) ==
    [i \in Ids |-> IF i \in batch THEN Clip(i, v) ELSE cache[i]]

(***************************************************************************)
(* startProcess: the fill loop.  FillNext evaluates the loop condition and *)
(* the bufferBatch call of one iteration for the given values of           *)
(* bufferedCount, audioQueue.length, MIN_BUFFER_SEGMENTS, subtitles,       *)
(* nextFetchIndex and processedIds: "send" = a request is sent and the     *)
(* loop suspends; "spin" = bufferBatch found nothing to send and changed   *)
(* nothing, bufferedCount = audioQueue.length is still too small, and the  *)
(* loop repeats the same iteration for ever (an await on a call that sent  *)
(* nothing resumes in a microtask, before any event is handled); "done" =  *)
(* the loop is left.                                                       *)
(***************************************************************************)
FillNext(bufferedCount, qlen, min, s, nfi, proc) ==
    IF bufferedCount < min /\ nfi < NumSubs(s)
    THEN LET r == BatchLoop(nfi, {}, Min(FILL_BATCH, min - bufferedCount), s, proc)
         IN IF r.batch # {}
            THEN [op |-> "send", batch |-> r.batch, i |-> r.i]
            ELSE IF qlen < min
                 THEN [op |-> "spin", batch |-> {}, i |-> nfi]
                 ELSE [op |-> "done", batch |-> {}, i |-> nfi]
    ELSE [op |-> "done", batch |-> {}, i |-> nfi]

\* what follows the evaluation: the request, the endless loop, or
\* video.play() and startBackgroundBuffering()
FillStep(ts, f, min, s) ==
    /\ (f.op = "done" /\ videoPaused) => CanQueueEvent
    /\ tasks' = IF f.op = "send" THEN AddTask(ts, Task("fill", s, f.batch, f.i, min)) ELSE ts
    /\ hung' = (f.op = "spin")
    /\ videoPaused' = IF f.op = "done" THEN FALSE ELSE videoPaused
    /\ pendingEvents' = IF f.op = "done" /\ videoPaused THEN pendingEvents + 1 ELSE pendingEvents
    /\ timers' = IF f.op = "done" THEN timers + 1 ELSE timers
    /\ UNCHANGED staleTimers

\* message start_dubbing: startProcess up to await this.fetchSubtitles(videoId)
StartDubbing ==
    /\ ~hung /\ BagCardinality(tasks) < MaxInFlight
    /\ videoPaused \/ CanQueueEvent
    /\ userEvents' = userEvents + 1
    /\ controlShown' = TRUE
    /\ isDubbing' = TRUE
    /\ videoPaused' = TRUE
    /\ pendingEvents' = IF videoPaused THEN pendingEvents ELSE pendingEvents + 1
    /\ LET videoId == url
           differs == currentVideoId # NoVideo /\ currentVideoId # videoId
       IN /\ audioCache' = IF differs THEN EmptyCache ELSE audioCache
          /\ processedIds' = IF differs THEN {} ELSE processedIds
          /\ audioQueue' = IF differs THEN << >> ELSE audioQueue
          /\ currentVideoId' = videoId
          /\ tasks' = AddTask(tasks, Task("subs", videoId, {}, 0, 0))
    /\ seekTarget' = -1 /\ lastHanded' = -1
    /\ UNCHANGED <<url, subtitles, isBuffering, nextFetchIndex, currentAudioPlayer,
                   detachedSounding, detachedEnded, currentTime, timers, staleTimers,
                   hung>>
    \* this.savedOriginalVolume = this.video.volume; this.video.volume = this.originalVolume
    /\ savedOriginalVolume' = videoVolume
    /\ videoVolume' = balance
    /\ volumeBefore' = IF controlShown THEN volumeBefore ELSE videoVolume
    /\ UNCHANGED balance

\* variant: the result of fetchSubtitles is not tested for being empty
SubtitlesArriveUnchecked(k, ok) ==
    /\ ~hung /\ BagIn(k, tasks) /\ k.kind = "subs"
    /\ LET s == IF ok THEN k.vid ELSE NoVideo
           ts == DropTask(tasks, k)
       IN /\ subtitles' = s
          /\ isDubbing' = isDubbing
          /\ LET min == Min(PREBUFFER_SEGMENTS, NumSubs(s))
             IN FillStep(ts, FillNext(0, Len(audioQueue), min, s, nextFetchIndex, processedIds), min, s)
    /\ UNCHANGED <<url, currentVideoId, isBuffering, nextFetchIndex, processedIds,
                   audioCache, audioQueue, currentAudioPlayer, detachedSounding, detachedEnded, currentTime,
                   seekTarget, lastHanded, controlShown, userEvents>>
    /\ UNCHANGED volumeVars

\* startProcess after fetchSubtitles returned: ok = a non-empty array,
\* otherwise [] (no subtitles, or the catch branch of fetchSubtitles)
SubtitlesArrive(k, ok) ==
    /\ ~hung /\ BagIn(k, tasks) /\ k.kind = "subs"
    /\ LET s == IF ok THEN k.vid ELSE NoVideo
           ts == DropTask(tasks, k)
       IN /\ subtitles' = s
          /\ IF NumSubs(s) = 0
             THEN /\ isDubbing' = FALSE
                  /\ tasks' = ts
                  /\ UNCHANGED <<videoPaused, pendingEvents, timers, staleTimers, hung>>
             ELSE /\ isDubbing' = isDubbing
                  /\ LET min == Min(PREBUFFER_SEGMENTS, NumSubs(s))
                     IN FillStep(ts, FillNext(0, Len(audioQueue), min, s, nextFetchIndex, processedIds), min, s)
    /\ UNCHANGED <<url, currentVideoId, isBuffering, nextFetchIndex, processedIds,
                   audioCache, audioQueue, currentAudioPlayer, detachedSounding, detachedEnded, currentTime,
                   seekTarget, lastHanded, controlShown, userEvents>>
    /\ UNCHANGED volumeVars

(***************************************************************************)
(* bufferUntilSafe(startIndex) up to its await, as a function of the       *)
(* fields it reads.  sent: a request for batch is sent (isBuffering stays  *)
(* true until the response); otherwise the call has run to its end:        *)
(* isBuffering is its final value and play says whether video.play() ran.  *)
(***************************************************************************)
BufferUntilSafe(startIndex, isBuf, s, proc, paused, ready, qlen) ==
    IF isBuf \/ startIndex >= NumSubs(s)
    THEN [sent |-> FALSE, batch |-> {}, i |-> startIndex, isBuffering |-> isBuf, play |-> FALSE]
    ELSE LET r == SafeLoop(startIndex, {}, 0, s, proc)
         IN IF r.batch # {}
            THEN [sent |-> TRUE, batch |-> r.batch, i |-> r.i, isBuffering |-> TRUE,
                  play |-> FALSE]
            ELSE [sent |-> FALSE, batch |-> {}, i |-> r.i, isBuffering |-> FALSE,
                  play |-> paused /\ ready /\ qlen > 0]

\* a call of bufferUntilSafe that did not take place
NoCall(isBuf) ==
    [sent |-> FALSE, batch |-> {}, i |-> 0, isBuffering |-> isBuf, play |-> FALSE]

(***************************************************************************)
(* The response of POST /synthesize arrives (ok) or the request fails, and *)
(* the suspended caller continues: sendBatchToServer from "const data",    *)
(* then bufferBatch or bufferUntilSafe from "this.nextFetchIndex = i",     *)
(* then the fill loop, the timer callback or the end of bufferUntilSafe.   *)
(* ready: video.readyState >= 3.                                           *)
(***************************************************************************)
Response(k, ok, ready) ==
    /\ ~hung /\ BagIn(k, tasks) /\ k.kind # "subs"
    /\ LET t == k
           ts == DropTask(tasks, k)
           q1 == IF ok THEN QueueAfterResponse(audioQueue, t.batch, t.vid) ELSE audioQueue
       IN /\ audioQueue' = q1
          /\ processedIds' = IF ok THEN ProcessedAfterResponse(processedIds, t.batch)
                                   ELSE processedIds
          /\ audioCache' = IF ok THEN CacheAfterResponse(audioCache, t.batch, t.vid)
                                 ELSE audioCache
          /\ nextFetchIndex' = t.i
          /\ CASE t.kind = "fill" ->
                    /\ FillStep(ts, FillNext(Len(q1), Len(q1), t.min, subtitles, t.i,
                                         processedIds'),
                                t.min, subtitles)
                    /\ UNCHANGED isBuffering
               [] t.kind = "timer" ->
                    /\ isBuffering' = FALSE
                    /\ tasks' = ts
                    /\ UNCHANGED <<videoPaused, pendingEvents, timers, staleTimers, hung>>
               [] OTHER ->
                    /\ isBuffering' = FALSE
                    /\ tasks' = ts
                    /\ LET play == videoPaused /\ ready /\ Len(q1) > 0
                       IN /\ play => CanQueueEvent
                          /\ videoPaused' = IF play THEN FALSE ELSE videoPaused
                          /\ pendingEvents' = IF play THEN pendingEvents + 1 ELSE pendingEvents
                    /\ UNCHANGED <<timers, staleTimers, hung>>
    /\ UNCHANGED <<url, currentVideoId, subtitles, isDubbing, currentAudioPlayer, detachedSounding, detachedEnded,
                   currentTime, seekTarget, lastHanded, controlShown, userEvents>>
    /\ UNCHANGED volumeVars

(***************************************************************************)
(* startBackgroundBuffering: one firing of the setInterval callback of a   *)
(* timer; stale: the timer was set before the last stop or reset (the code *)
(* does not tell such a timer from one of the present session)             *)
(***************************************************************************)
\* variant: the callback does not consult isBuffering
TimerTickUnguarded(stale) ==
    /\ ~hung
    /\ IF stale THEN staleTimers > 0 ELSE timers - staleTimers > 0
    /\ IF ~isDubbing \/ NumSubs(subtitles) - Cardinality(processedIds) <= 0
       THEN \* clearInterval(bufferInterval)
            /\ timers' = timers - 1
            /\ staleTimers' = IF stale THEN staleTimers - 1 ELSE staleTimers
            /\ UNCHANGED <<isBuffering, tasks>>
       ELSE LET r == BatchLoop(nextFetchIndex, {}, BACKGROUND_BATCH, subtitles, processedIds)
            IN /\ nextFetchIndex < NumSubs(subtitles)
               /\ r.batch # {}
               /\ BagCardinality(tasks) < MaxInFlight
               /\ isBuffering' = TRUE
               /\ tasks' = AddTask(tasks, Task("timer", subtitles, r.batch, r.i, 0))
               /\ UNCHANGED <<timers, staleTimers>>
    /\ UNCHANGED <<url, currentVideoId, subtitles, isDubbing, nextFetchIndex, processedIds,
                   audioCache, audioQueue, currentAudioPlayer, detachedSounding, detachedEnded, videoPaused,
                   pendingEvents, currentTime, hung, seekTarget, lastHanded, controlShown, userEvents>>
    /\ UNCHANGED volumeVars

\* variant: the flag is not lowered when bufferBatch returns without a request
TimerTickHoldsFlag(stale) ==
    /\ ~hung
    /\ IF stale THEN staleTimers > 0 ELSE timers - staleTimers > 0
    /\ IF ~isDubbing \/ NumSubs(subtitles) - Cardinality(processedIds) <= 0
       THEN \* clearInterval(bufferInterval)
            /\ timers' = timers - 1
            /\ staleTimers' = IF stale THEN staleTimers - 1 ELSE staleTimers
            /\ UNCHANGED <<isBuffering, tasks>>
       ELSE LET r == BatchLoop(nextFetchIndex, {}, BACKGROUND_BATCH, subtitles, processedIds)
                sends == nextFetchIndex < NumSubs(subtitles) /\ r.batch # {}
            IN /\ ~isBuffering
               /\ sends => BagCardinality(tasks) < MaxInFlight
               /\ isBuffering' = TRUE
               /\ tasks' = IF sends
                           THEN AddTask(tasks, Task("timer", subtitles, r.batch, r.i, 0))
                           ELSE tasks
               /\ UNCHANGED <<timers, staleTimers>>
    /\ UNCHANGED <<url, currentVideoId, subtitles, isDubbing, nextFetchIndex, processedIds,
                   audioCache, audioQueue, currentAudioPlayer, detachedSounding, detachedEnded, videoPaused,
                   pendingEvents, currentTime, hung, seekTarget, lastHanded, controlShown, userEvents>>
    /\ UNCHANGED volumeVars

\* the callback as written
TimerTick(stale) ==
    /\ ~hung
    /\ IF stale THEN staleTimers > 0 ELSE timers - staleTimers > 0
    /\ IF ~isDubbing \/ NumSubs(subtitles) - Cardinality(processedIds) <= 0
       THEN \* clearInterval(bufferInterval)
            /\ timers' = timers - 1
            /\ staleTimers' = IF stale THEN staleTimers - 1 ELSE staleTimers
            /\ UNCHANGED <<isBuffering, tasks>>
       ELSE LET r == BatchLoop(nextFetchIndex, {}, BACKGROUND_BATCH, subtitles, processedIds)
            IN /\ ~isBuffering
               /\ nextFetchIndex < NumSubs(subtitles)
               /\ r.batch # {}
               /\ BagCardinality(tasks) < MaxInFlight
               /\ isBuffering' = TRUE
               /\ tasks' = AddTask(tasks, Task("timer", subtitles, r.batch, r.i, 0))
               /\ UNCHANGED <<timers, staleTimers>>
    /\ UNCHANGED <<url, currentVideoId, subtitles, isDubbing, nextFetchIndex, processedIds,
                   audioCache, audioQueue, currentAudioPlayer, detachedSounding, detachedEnded, videoPaused,
                   pendingEvents, currentTime, hung, seekTarget, lastHanded, controlShown, userEvents>>
    /\ UNCHANGED volumeVars

(***************************************************************************)
(* Playback selector                                                       *)
(***************************************************************************)
\* variant: the head of the queue is taken whatever the position is
ShouldPlayAtOnce(c, t) == TRUE

\* variant: a clip is due only while its slot lasts
ShouldPlayWithinSlot(c, t) == t >= ClipStart(c) - LEAD_TOLERANCE /\ t < ClipEnd(c)

\* const shouldPlay = currentTime >= nextAudio.start - 0.3
ShouldPlay(c, t) == t >= ClipStart(c) - LEAD_TOLERANCE

\* variant: the remaining time is not floored
RemainingTimeUnfloored(c, t) == ClipEnd(c) - t

\* const remainingTime = Math.max(nextAudio.end - currentTime, 0.5)
RemainingTime(c, t) == Max(ClipEnd(c) - t, MIN_SLOT)

\* the guard of playMatchingAudio: a clip is sounding, do not interrupt it
Busy(cur) == cur # None /\ ~cur.ended /\ ~cur.paused

\* playMatchingAudio(currentTime) with playAudioWithTiming: the new values of
\* the queue and of the current player, the element left behind (old) and
\* the clip handed to the audio controller, if any
PlayMatchingAudio(q, cur, t) ==
    IF Busy(cur)
    THEN [queue |-> q, cur |-> cur, old |-> None, handed |-> FALSE]
    ELSE LET sq == SortById(q)
         IN IF sq = << >> \/ ~ShouldPlay(Head(sq), t)
            THEN [queue |-> sq, cur |-> cur, old |-> None, handed |-> FALSE]
            ELSE [queue |-> Tail(sq),
                  cur |-> Player(Head(sq), RemainingTime(Head(sq), t)),
                  old |-> StopCurrent(cur),
                  handed |-> TRUE]

\* the buffer-health part of onTimeUpdate: is bufferUntilSafe(nextFetchIndex) called
BufferLow(t) ==
    /\ ~(Cardinality(processedIds) >= NumSubs(subtitles))
    /\ nextFetchIndex - 1 >= 0 /\ nextFetchIndex - 1 < NumSubs(subtitles)
    /\ SubsOf(subtitles)[nextFetchIndex].end - t < MIN_BUFFER_SEC
    /\ ~isBuffering
    /\ nextFetchIndex < NumSubs(subtitles)

\* onTimeUpdate at position t; allowed: the browser lets audio.play() start the
\* element (otherwise the promise is rejected at once and only logged)
OnTimeUpdate(t, ready, allowed) ==
    /\ ~hung /\ ~videoPaused /\ t >= currentTime
    /\ currentTime' = t
    /\ allowed \/ (isDubbing /\ PlayMatchingAudio(audioQueue, currentAudioPlayer, t).handed)
    /\ IF ~isDubbing
       THEN UNCHANGED <<audioQueue, currentAudioPlayer, detachedSounding, detachedEnded, lastHanded, isBuffering,
                        tasks>>
       ELSE LET p0 == PlayMatchingAudio(audioQueue, currentAudioPlayer, t)
                p == IF allowed THEN p0 ELSE [p0 EXCEPT !.cur = Refused(p0.cur)]
                b == IF BufferLow(t)
                     THEN BufferUntilSafe(nextFetchIndex, isBuffering, subtitles,
                                          processedIds, videoPaused, ready, Len(p.queue))
                     ELSE NoCall(isBuffering)
            IN /\ audioQueue' = p.queue
               /\ currentAudioPlayer' = p.cur
               /\ detachedSounding' = detachedSounding + SoundingCount(p.old)
               /\ detachedEnded' = detachedEnded + EndedCount(p.old)
               /\ lastHanded' = IF p.handed THEN p.cur.clip.id ELSE lastHanded
               /\ isBuffering' = b.isBuffering
               /\ b.sent => BagCardinality(tasks) < MaxInFlight
               /\ tasks' = IF b.sent
                           THEN AddTask(tasks, Task("low", subtitles, b.batch, b.i, 0))
                           ELSE tasks
    /\ UNCHANGED <<url, currentVideoId, subtitles, isDubbing, nextFetchIndex, processedIds,
                   audioCache, videoPaused, pendingEvents, timers, staleTimers, hung, seekTarget,
                   controlShown, userEvents>>
    /\ UNCHANGED volumeVars

\* timeupdate event of the playing video, which has advanced to position t
Tick(t, ready) == OnTimeUpdate(t, ready, TRUE)

\* the same, on a tick that hands a clip over whose play() is refused
TickPlayRefused(t, ready) == OnTimeUpdate(t, ready, FALSE)

(***************************************************************************)
(* Seek coordinator                                                        *)
(***************************************************************************)
\* variant: the search returns the last segment that ends after the position
SeekIndexLast(s, t) ==
    LET later == {i \in 0 .. NumSubs(s) - 1 : SubsOf(s)[i + 1].end > t}
    IN IF later # {} THEN CHOOSE i \in later : \A j \in later : i >= j ELSE -1

\* variant: a position past the last segment selects the last segment
SeekIndexClamped(s, t) ==
    LET later == {i \in 0 .. NumSubs(s) - 1 : SubsOf(s)[i + 1].end > t}
    IN IF later # {} THEN CHOOSE i \in later : \A j \in later : i <= j
       ELSE NumSubs(s) - 1

\* this.subtitles.findIndex(s => s.end > currentTime), with the fallback to 0
\* before the first segment; -1 = onSeek returns
SeekIndex(s, t) ==
    LET later == {i \in 0 .. NumSubs(s) - 1 : SubsOf(s)[i + 1].end > t}
        firstStart == IF NumSubs(s) > 0 THEN SubsOf(s)[1].start ELSE 0
    IN IF later # {} THEN CHOOSE i \in later : \A j \in later : i <= j
       ELSE IF t < firstStart THEN 0 ELSE -1

\* variant: the window runs to the last segment
SeekWindowToEnd(s, newIndex) == newIndex .. (NumSubs(s) - 1)

\* the indices onSeek looks up in the cache
SeekWindow(s, newIndex) == newIndex .. (Min(newIndex + SEEK_WINDOW, NumSubs(s)) - 1)

RECURSIVE CachedClips(_, _)
CachedClips(idSeq, cache) ==
    IF idSeq = << >> THEN << >>
    ELSE << cache[Head(idSeq)] >> \o CachedClips(Tail(idSeq), cache)

\* the queue onSeek rebuilds: the cache hits of the window, sorted by start
SeekQueue(s, newIndex, cache) ==
    SortByStart(CachedClips(SetToSeq({i \in SeekWindow(s, newIndex) : cache[i] # None}), cache))

SetMax(S) == CHOOSE x \in S : \A y \in S : y <= x

\* variant: the seek clears the cache as a reset does
SeekDropsCache(t, ready) ==
    /\ ~hung
    /\ userEvents' = userEvents + 1
    /\ currentTime' = t
    /\ seekTarget' = t /\ lastHanded' = -1
    /\ currentAudioPlayer' = None
    /\ detachedSounding' = detachedSounding + SoundingCount(StopCurrent(currentAudioPlayer))
    /\ detachedEnded' = detachedEnded + EndedCount(StopCurrent(currentAudioPlayer))
    /\ LET newIndex == SeekIndex(subtitles, t)
       IN IF newIndex = -1
          THEN UNCHANGED <<audioQueue, nextFetchIndex, isBuffering, tasks, videoPaused,
                           pendingEvents>>
          ELSE LET q1 == SeekQueue(subtitles, newIndex, audioCache)
                   needsFetch == {i \in SeekWindow(subtitles, newIndex) : audioCache[i] = None}
                   play1 == Len(q1) > 0 /\ videoPaused
                   paused1 == IF Len(q1) > 0 THEN FALSE ELSE videoPaused
                   b1 == IF Len(q1) > 0 THEN NoCall(isBuffering)
                         ELSE BufferUntilSafe(newIndex, isBuffering, subtitles, processedIds,
                                              paused1, ready, Len(q1))
                   b2 == IF needsFetch # {} /\ ~b1.isBuffering
                         THEN BufferUntilSafe(SetMax(needsFetch), b1.isBuffering, subtitles,
                                              processedIds, paused1, ready, Len(q1))
                         ELSE NoCall(b1.isBuffering)
                   b == IF b1.sent THEN b1 ELSE b2
                   play == play1 \/ b1.play \/ b2.play
               IN /\ audioQueue' = q1
                  /\ nextFetchIndex' = newIndex
                  /\ isBuffering' = b2.isBuffering
                  /\ b.sent => BagCardinality(tasks) < MaxInFlight
                  /\ tasks' = IF b.sent
                              THEN AddTask(tasks, Task("safe", subtitles, b.batch, b.i, 0))
                              ELSE tasks
                  /\ play => CanQueueEvent
                  /\ videoPaused' = IF play THEN FALSE ELSE videoPaused
                  /\ pendingEvents' = IF play THEN pendingEvents + 1 ELSE pendingEvents
    /\ audioCache' = EmptyCache
    /\ UNCHANGED <<url, currentVideoId, subtitles, isDubbing, processedIds,
                   timers, staleTimers, hung, controlShown>>
    /\ UNCHANGED volumeVars

\* seeking event: the user moved the play position to t
Seek(t, ready) ==
    /\ ~hung
    /\ userEvents' = userEvents + 1
    /\ currentTime' = t
    /\ seekTarget' = t /\ lastHanded' = -1
    /\ currentAudioPlayer' = None
    /\ detachedSounding' = detachedSounding + SoundingCount(StopCurrent(currentAudioPlayer))
    /\ detachedEnded' = detachedEnded + EndedCount(StopCurrent(currentAudioPlayer))
    /\ LET newIndex == SeekIndex(subtitles, t)
       IN IF newIndex = -1
          THEN UNCHANGED <<audioQueue, nextFetchIndex, isBuffering, tasks, videoPaused,
                           pendingEvents>>
          ELSE LET q1 == SeekQueue(subtitles, newIndex, audioCache)
                   needsFetch == {i \in SeekWindow(subtitles, newIndex) : audioCache[i] = None}
                   play1 == Len(q1) > 0 /\ videoPaused
                   paused1 == IF Len(q1) > 0 THEN FALSE ELSE videoPaused
                   b1 == IF Len(q1) > 0 THEN NoCall(isBuffering)
                         ELSE BufferUntilSafe(newIndex, isBuffering, subtitles, processedIds,
                                              paused1, ready, Len(q1))
                   b2 == IF needsFetch # {} /\ ~b1.isBuffering
                         THEN BufferUntilSafe(SetMax(needsFetch), b1.isBuffering, subtitles,
                                              processedIds, paused1, ready, Len(q1))
                         ELSE NoCall(b1.isBuffering)
                   b == IF b1.sent THEN b1 ELSE b2
                   play == play1 \/ b1.play \/ b2.play
               IN /\ audioQueue' = q1
                  /\ nextFetchIndex' = newIndex
                  /\ isBuffering' = b2.isBuffering
                  /\ b.sent => BagCardinality(tasks) < MaxInFlight
                  /\ tasks' = IF b.sent
                              THEN AddTask(tasks, Task("safe", subtitles, b.batch, b.i, 0))
                              ELSE tasks
                  /\ play => CanQueueEvent
                  /\ videoPaused' = IF play THEN FALSE ELSE videoPaused
                  /\ pendingEvents' = IF play THEN pendingEvents + 1 ELSE pendingEvents
    /\ UNCHANGED <<url, currentVideoId, subtitles, isDubbing, processedIds, audioCache,
                   timers, staleTimers, hung, controlShown>>
    /\ UNCHANGED volumeVars

(***************************************************************************)
(* Video pause and play                                                    *)
(***************************************************************************)
\* the user pauses or resumes the video; the browser queues the event
UserToggle ==
    /\ ~hung /\ CanQueueEvent
    /\ videoPaused' = ~videoPaused
    /\ pendingEvents' = pendingEvents + 1
    /\ UNCHANGED <<url, currentVideoId, subtitles, isDubbing, isBuffering, nextFetchIndex,
                   processedIds, audioCache, audioQueue, currentAudioPlayer, detachedSounding, detachedEnded,
                   currentTime, tasks, timers, staleTimers, hung, seekTarget, lastHanded,
                   controlShown, userEvents>>
    /\ UNCHANGED volumeVars

\* onVideoPlay: resume a paused clip (play() on an ended element restarts it,
\* play() on an element whose source is unplayable is rejected)
OnVideoPlay(cur) ==
    IF isDubbing /\ cur # None /\ cur.paused /\ ~cur.failed
    THEN [cur EXCEPT !.paused = FALSE, !.ended = FALSE]
    ELSE cur

\* onVideoPause: pause the clip
OnVideoPause(cur) ==
    IF isDubbing /\ cur # None /\ ~cur.paused
    THEN [cur EXCEPT !.paused = TRUE]
    ELSE cur

\* delivery of the oldest queued play or pause event of the video
VideoEvent ==
    /\ ~hung /\ pendingEvents > 0
    /\ pendingEvents' = pendingEvents - 1
    /\ currentAudioPlayer' = IF OldestEvent = "play" THEN OnVideoPlay(currentAudioPlayer)
                                                      ELSE OnVideoPause(currentAudioPlayer)
    /\ UNCHANGED <<url, currentVideoId, subtitles, isDubbing, isBuffering, nextFetchIndex,
                   processedIds, audioCache, audioQueue, detachedSounding, detachedEnded, videoPaused,
                   currentTime, tasks, timers, staleTimers, hung, seekTarget, lastHanded,
                   controlShown, userEvents>>
    /\ UNCHANGED volumeVars

(***************************************************************************)
(* Audio elements reach their end                                          *)
(***************************************************************************)
Finished(a) == [a EXCEPT !.ended = TRUE, !.pendingEnded = TRUE]

\* a sounding element plays to its end: ended becomes true, the event is queued
AudioEnds ==
    /\ ~hung
    /\ \/ /\ Sounding(currentAudioPlayer) /\ ~currentAudioPlayer.pendingEnded
          /\ currentAudioPlayer' = Finished(currentAudioPlayer)
          /\ UNCHANGED <<detachedSounding, detachedEnded>>
       \/ /\ detachedSounding > 0
          /\ detachedSounding' = detachedSounding - 1
          /\ detachedEnded' = detachedEnded + 1
          /\ UNCHANGED currentAudioPlayer
    /\ UNCHANGED <<url, currentVideoId, subtitles, isDubbing, isBuffering, nextFetchIndex,
                   processedIds, audioCache, audioQueue, videoPaused, pendingEvents,
                   currentTime, tasks, timers, staleTimers, hung, seekTarget, lastHanded,
                   controlShown, userEvents>>
    /\ UNCHANGED volumeVars

\* the source of a started element cannot be loaded or decoded: the promise
\* of play() is rejected and the catch handler logs the error
AudioError ==
    /\ ~hung
    /\ \/ /\ Sounding(currentAudioPlayer) /\ ~currentAudioPlayer.pendingEnded
          /\ currentAudioPlayer' = Errored(currentAudioPlayer)
          /\ UNCHANGED detachedSounding
       \/ /\ detachedSounding > 0
          /\ detachedSounding' = detachedSounding - 1
          /\ UNCHANGED currentAudioPlayer
    /\ UNCHANGED <<url, currentVideoId, subtitles, isDubbing, isBuffering, nextFetchIndex,
                   processedIds, audioCache, audioQueue, detachedEnded, videoPaused,
                   pendingEvents, currentTime, tasks, timers, staleTimers, hung, seekTarget,
                   lastHanded, controlShown, userEvents>>
    /\ UNCHANGED volumeVars

\* loadedmetadata of the current element, whose audio lasts d: the handler
\* set by playAudioWithTiming chooses the playback rate
LoadedMetadata(d) ==
    /\ ~hung
    /\ currentAudioPlayer # None
    /\ currentAudioPlayer.duration = NoDuration
    /\ ~currentAudioPlayer.ended /\ ~currentAudioPlayer.failed
    /\ currentAudioPlayer' =
           [currentAudioPlayer EXCEPT !.duration = d,
                                      !.rate = PlaybackRate(d, currentAudioPlayer.slot)]
    /\ UNCHANGED <<url, currentVideoId, subtitles, isDubbing, isBuffering, nextFetchIndex,
                   processedIds, audioCache, audioQueue, detachedSounding, detachedEnded,
                   videoPaused, pendingEvents, currentTime, tasks, timers, staleTimers, hung,
                   seekTarget, lastHanded, controlShown, userEvents>>
    /\ UNCHANGED volumeVars

\* audio.onended of some element: this.currentAudioPlayer = null
AudioEndedEvent ==
    /\ ~hung
    /\ currentAudioPlayer' = None
    /\ \/ /\ currentAudioPlayer # None /\ currentAudioPlayer.pendingEnded
          /\ detachedSounding' = detachedSounding + SoundingCount(currentAudioPlayer)
          /\ UNCHANGED detachedEnded
       \/ /\ detachedEnded > 0
          /\ detachedSounding' = detachedSounding + SoundingCount(currentAudioPlayer)
          /\ detachedEnded' = detachedEnded - 1 + EndedCount(currentAudioPlayer)
    /\ UNCHANGED <<url, currentVideoId, subtitles, isDubbing, isBuffering, nextFetchIndex,
                   processedIds, audioCache, audioQueue, videoPaused, pendingEvents,
                   currentTime, tasks, timers, staleTimers, hung, seekTarget, lastHanded,
                   controlShown, userEvents>>
    /\ UNCHANGED volumeVars

(***************************************************************************)
(* Navigation, reset and stop                                              *)
(***************************************************************************)
\* the user opens another video in the same page (SPA navigation)
Navigate ==
    /\ ~hung
    /\ userEvents' = userEvents + 1
    /\ url' = IF url = "A" THEN "B" ELSE "A"
    /\ currentTime' = 0
    /\ UNCHANGED <<currentVideoId, subtitles, isDubbing, isBuffering, nextFetchIndex,
                   processedIds, audioCache, audioQueue, currentAudioPlayer, detachedSounding, detachedEnded,
                   videoPaused, pendingEvents, tasks, timers, staleTimers, hung, seekTarget,
                   lastHanded, controlShown>>
    /\ UNCHANGED volumeVars

\* variant: the reset leaves processedIds and nextFetchIndex as they are
NavPollKeepsCursor ==
    /\ ~hung
    /\ currentVideoId # NoVideo /\ url # currentVideoId
    /\ currentAudioPlayer' = None
    /\ detachedSounding' = detachedSounding + SoundingCount(StopCurrent(currentAudioPlayer))
    /\ detachedEnded' = detachedEnded + EndedCount(StopCurrent(currentAudioPlayer))
    /\ audioQueue' = << >>
    /\ audioCache' = EmptyCache
    /\ subtitles' = NoVideo
    /\ isDubbing' = FALSE
    /\ isBuffering' = FALSE
    /\ currentVideoId' = NoVideo
    /\ tasks' = MarkStale(tasks)
    /\ seekTarget' = -1 /\ lastHanded' = -1
    /\ staleTimers' = timers
    /\ UNCHANGED <<url, videoPaused, pendingEvents, currentTime, timers, hung, controlShown,
                   userEvents, processedIds, nextFetchIndex>>
    /\ UNCHANGED volumeVars

\* the interval callback of setupNavigationListener finds a changed video id
\* and calls resetForNewVideo
NavPoll ==
    /\ ~hung
    /\ currentVideoId # NoVideo /\ url # currentVideoId
    /\ currentAudioPlayer' = None
    /\ detachedSounding' = detachedSounding + SoundingCount(StopCurrent(currentAudioPlayer))
    /\ detachedEnded' = detachedEnded + EndedCount(StopCurrent(currentAudioPlayer))
    /\ audioQueue' = << >>
    /\ audioCache' = EmptyCache
    /\ processedIds' = {}
    /\ subtitles' = NoVideo
    /\ nextFetchIndex' = 0
    /\ isDubbing' = FALSE
    /\ isBuffering' = FALSE
    /\ currentVideoId' = NoVideo
    /\ tasks' = MarkStale(tasks)
    /\ seekTarget' = -1 /\ lastHanded' = -1
    /\ staleTimers' = timers
    /\ UNCHANGED <<url, videoPaused, pendingEvents, currentTime, timers, hung, controlShown, userEvents>>
    /\ UNCHANGED volumeVars

\* click on the Stop button of the floating control: stopDubbing
StopDubbing ==
    /\ ~hung /\ controlShown
    /\ userEvents' = userEvents + 1
    /\ controlShown' = FALSE
    /\ isDubbing' = FALSE
    /\ currentAudioPlayer' = None
    /\ detachedSounding' = detachedSounding + SoundingCount(StopCurrent(currentAudioPlayer))
    /\ detachedEnded' = detachedEnded + EndedCount(StopCurrent(currentAudioPlayer))
    /\ tasks' = MarkStale(tasks)
    /\ seekTarget' = -1 /\ lastHanded' = -1
    /\ UNCHANGED <<url, currentVideoId, subtitles, isBuffering, nextFetchIndex,
                   processedIds, audioCache, audioQueue, videoPaused, pendingEvents,
                   currentTime, timers, hung>>
    /\ staleTimers' = timers
    \* this.video.volume = this.savedOriginalVolume
    /\ videoVolume' = savedOriginalVolume
    /\ UNCHANGED <<balance, savedOriginalVolume, volumeBefore>>

\* the runs explored hold at most MaxUserEvents user commands (start, seek,
\* navigation, stop)
UserBudget == userEvents < MaxUserEvents

Next ==
    \/ UserBudget /\ StartDubbing
    \/ \E k \in BagToSet(tasks), ok \in BOOLEAN : SubtitlesArrive(k, ok)
    \/ \E k \in BagToSet(tasks), ok \in BOOLEAN, ready \in BOOLEAN : Response(k, ok, ready)
    \/ \E stale \in BOOLEAN : TimerTick(stale)
    \/ \E t \in Positions, ready \in BOOLEAN : Tick(t, ready)
    \/ \E t \in Positions, ready \in BOOLEAN : TickPlayRefused(t, ready)
    \/ \E t \in Positions, ready \in BOOLEAN : UserBudget /\ Seek(t, ready)
    \/ UserToggle
    \/ VideoEvent
    \/ AudioEnds
    \/ AudioError
    \/ AudioEndedEvent
    \/ UserBudget /\ Navigate
    \/ NavPoll
    \/ UserBudget /\ StopDubbing

Spec == Init /\ [][Next]_vars

(***************************************************************************)
(* Longer sessions: up to MaxSessionEvents commands of a viewer who does   *)
(* not touch the pause button (the video is paused and resumed by the      *)
(* program only), with clips that all can be played.                       *)
(***************************************************************************)
SessionBudget == userEvents < MaxSessionEvents

NextSession ==
    \/ SessionBudget /\ StartDubbing
    \/ \E k \in BagToSet(tasks), ok \in BOOLEAN : SubtitlesArrive(k, ok)
    \/ \E k \in BagToSet(tasks), ok \in BOOLEAN, ready \in BOOLEAN : Response(k, ok, ready)
    \/ \E stale \in BOOLEAN : TimerTick(stale)
    \/ \E t \in Positions, ready \in BOOLEAN : Tick(t, ready)
    \/ \E t \in Positions, ready \in BOOLEAN : SessionBudget /\ Seek(t, ready)
    \/ VideoEvent
    \/ AudioEnds
    \/ AudioEndedEvent
    \/ SessionBudget /\ Navigate
    \/ NavPoll
    \/ SessionBudget /\ StopDubbing

SpecSession == Init /\ [][NextSession]_vars

(***************************************************************************)
(* The extension is loaded on the page of video C and the viewer only      *)
(* starts the dubbing (up to MaxLongVideoEvents times).                    *)
(***************************************************************************)
InitLongVideo ==
    /\ url = "C"
    /\ currentVideoId = NoVideo
    /\ subtitles = NoVideo
    /\ isDubbing = FALSE
    /\ isBuffering = FALSE
    /\ nextFetchIndex = 0
    /\ processedIds = {}
    /\ audioCache = EmptyCache
    /\ audioQueue = << >>
    /\ currentAudioPlayer = None
    /\ detachedSounding = 0
    /\ detachedEnded = 0
    /\ videoPaused = FALSE
    /\ pendingEvents = 0
    /\ currentTime = 0
    /\ tasks = EmptyBag
    /\ timers = 0
    /\ staleTimers = 0
    /\ hung = FALSE
    /\ seekTarget = -1
    /\ lastHanded = -1
    /\ controlShown = FALSE
    /\ userEvents = 0
    /\ VolumeUntouched

LongVideoBudget == userEvents < MaxLongVideoEvents

NextLongVideo ==
    \/ LongVideoBudget /\ StartDubbing
    \/ \E k \in BagToSet(tasks), ok \in BOOLEAN : SubtitlesArrive(k, ok)
    \/ \E k \in BagToSet(tasks), ok \in BOOLEAN, ready \in BOOLEAN : Response(k, ok, ready)
    \/ \E stale \in BOOLEAN : TimerTick(stale)
    \/ \E t \in Positions, ready \in BOOLEAN : Tick(t, ready)
    \/ \E t \in Positions, ready \in BOOLEAN : TickPlayRefused(t, ready)
    \/ VideoEvent
    \/ AudioEnds
    \/ AudioError
    \/ AudioEndedEvent

SpecLongVideo == InitLongVideo /\ [][NextLongVideo]_vars

(***************************************************************************)
(* The extension is loaded on the page of video D, which has more segments *)
(* than the window of a seek; the viewer starts the dubbing and seeks (up  *)
(* to MaxSeekWindowEvents commands) and every request succeeds.  Requests, *)
(* responses, timers and seeks are explored; failures and the playback of  *)
(* clips are left to the other specifications.                             *)
(***************************************************************************)
\* the positions the viewer of video D seeks to
LongPositions == {0, 1050}

InitSeekWindow ==
    /\ url = "D"
    /\ currentVideoId = NoVideo
    /\ subtitles = NoVideo
    /\ isDubbing = FALSE
    /\ isBuffering = FALSE
    /\ nextFetchIndex = 0
    /\ processedIds = {}
    /\ audioCache = EmptyCache
    /\ audioQueue = << >>
    /\ currentAudioPlayer = None
    /\ detachedSounding = 0
    /\ detachedEnded = 0
    /\ videoPaused = FALSE
    /\ pendingEvents = 0
    /\ currentTime = 0
    /\ tasks = EmptyBag
    /\ timers = 0
    /\ staleTimers = 0
    /\ hung = FALSE
    /\ seekTarget = -1
    /\ lastHanded = -1
    /\ controlShown = FALSE
    /\ userEvents = 0
    /\ VolumeUntouched

SeekWindowBudget == userEvents < MaxSeekWindowEvents

NextSeekWindow ==
    \/ SeekWindowBudget /\ StartDubbing
    \/ \E k \in BagToSet(tasks) : SubtitlesArrive(k, TRUE)
    \/ \E k \in BagToSet(tasks), ready \in BOOLEAN : Response(k, TRUE, ready)
    \/ \E stale \in BOOLEAN : TimerTick(stale)
    \/ \E t \in LongPositions, ready \in BOOLEAN : SeekWindowBudget /\ Seek(t, ready)
    \/ VideoEvent

SpecSeekWindow == InitSeekWindow /\ [][NextSeekWindow]_vars

(***************************************************************************)
(* The extension is loaded on the page of video S (slots of 2, 3 and 4 s); *)
(* the viewer starts the dubbing and seeks (up to MaxRateEvents commands), *)
(* and the metadata of the started clips is loaded, with an audio duration *)
(* out of Durations; every clip can be played.                             *)
(***************************************************************************)
\* the positions of the clock ticks and seeks on video S
RatePositions == {0, 17, 20, 50, 95}

InitRate ==
    /\ url = "S"
    /\ currentVideoId = NoVideo
    /\ subtitles = NoVideo
    /\ isDubbing = FALSE
    /\ isBuffering = FALSE
    /\ nextFetchIndex = 0
    /\ processedIds = {}
    /\ audioCache = EmptyCache
    /\ audioQueue = << >>
    /\ currentAudioPlayer = None
    /\ detachedSounding = 0
    /\ detachedEnded = 0
    /\ videoPaused = FALSE
    /\ pendingEvents = 0
    /\ currentTime = 0
    /\ tasks = EmptyBag
    /\ timers = 0
    /\ staleTimers = 0
    /\ hung = FALSE
    /\ seekTarget = -1
    /\ lastHanded = -1
    /\ controlShown = FALSE
    /\ userEvents = 0
    /\ VolumeUntouched

RateBudget == userEvents < MaxRateEvents

NextRate ==
    \/ RateBudget /\ StartDubbing
    \/ \E k \in BagToSet(tasks), ok \in BOOLEAN : SubtitlesArrive(k, ok)
    \/ \E k \in BagToSet(tasks), ok \in BOOLEAN, ready \in BOOLEAN : Response(k, ok, ready)
    \/ \E stale \in BOOLEAN : TimerTick(stale)
    \/ \E t \in RatePositions, ready \in BOOLEAN : Tick(t, ready)
    \/ \E t \in RatePositions, ready \in BOOLEAN : RateBudget /\ Seek(t, ready)
    \/ \E d \in Durations : LoadedMetadata(d)
    \/ VideoEvent
    \/ AudioEnds
    \/ AudioEndedEvent

SpecRate == InitRate /\ [][NextRate]_vars

(***************************************************************************)
(* Properties                                                              *)
(***************************************************************************)
\* the Audio elements that are audible: started and neither paused nor ended
SoundingElements == SoundingCount(currentAudioPlayer) + detachedSounding

\* C1: in every reachable state at most one clip is sounding, whatever the
\* interleaving of start, ticks, seeks, pause/play, responses, ended
\* callbacks, stop and reset.
C1_AtMostOneSounding == SoundingElements <= 1

\* C2: at most one synthesis request is outstanding at any time, whichever
\* trigger issued it.
C2_OneRequestOutstanding == Outstanding <= 1

\* a step in which playMatchingAudio hands the head of the sorted queue to
\* playAudioWithTiming
HandedStep ==
    /\ userEvents' = userEvents
    /\ audioQueue # << >>
    /\ audioQueue' = Tail(SortById(audioQueue))
    /\ currentAudioPlayer' = Player(Head(SortById(audioQueue)),
                                    RemainingTime(Head(SortById(audioQueue)), currentTime'))

\* C3: within a session and between two seeks, the ids of the clips handed
\* to the audio controller are strictly increasing.
C3_HandedIdsIncrease ==
    [][(HandedStep /\ lastHanded # -1) => Head(SortById(audioQueue)).id > lastHanded]_vars

\* C4: the playback queue never holds two clips with the same id.
C4_NoDuplicateIds ==
    \A i, j \in DOMAIN audioQueue : i # j => audioQueue[i].id # audioQueue[j].id

StrictlyAscendingById(q) == \A i \in 1 .. (Len(q) - 1) : q[i].id < q[i + 1].id

\* the states in which a timeupdate event makes playMatchingAudio sort the
\* queue and inspect its head
Inspecting == ~hung /\ isDubbing /\ ~videoPaused /\ ~Busy(currentAudioPlayer)

\* C5: whenever playMatchingAudio inspects the head of the queue, the sorted
\* queue is strictly ascending by id.
C5_SortedQueueStrictlyAscending ==
    Inspecting => StrictlyAscendingById(SortById(audioQueue))

\* C6: a synthesis response that arrives after a reset or a stop changes
\* neither the cache, the queue, processedIds nor nextFetchIndex.
C6_StaleResponseDiscarded ==
    [][\A k \in BagToSet(tasks), ready \in BOOLEAN :
          (k.stale /\ Response(k, TRUE, ready))
              => UNCHANGED <<audioCache, audioQueue, processedIds, nextFetchIndex>>]_vars

\* C7: after a seek to T and until the next seek or reset, the queue holds
\* only clips whose slot end is >= T.
C7_QueueNotBeforeSeekTarget ==
    seekTarget # -1 =>
        \A i \in DOMAIN audioQueue : ClipEnd(audioQueue[i]) >= seekTarget

\* C8: every seek, for any target position, stops the sounding clip and
\* leaves in the queue no clip other than those rebuilt from the cache for
\* the target; a seek at or past the end of the last segment leaves it empty.
C8_SeekClearsQueue ==
    [][\A t \in Positions, ready \in BOOLEAN :
          Seek(t, ready) =>
              /\ currentAudioPlayer' = None
              /\ SoundingElements' <= detachedSounding
              /\ audioQueue' = IF SeekIndex(subtitles, t) = -1 THEN << >>
                               ELSE SeekQueue(subtitles, SeekIndex(subtitles, t), audioCache)]_vars

\* a timeupdate at position t finds at the head of the queue a clip whose
\* slot has already ended
LateHead(t) ==
    /\ isDubbing /\ ~Busy(currentAudioPlayer)
    /\ audioQueue # << >>
    /\ ClipEnd(Head(SortById(audioQueue))) < t

C10_CacheSubsetOfProcessed == CachedIds \subseteq processedIds

\* the cache holds clips
C10_Witness == CachedIds # {}

\* the synthesis requests issued by a step
NewRequests ==
    {k \in BagToSet(tasks') : /\ k.kind # "subs" /\ ~k.stale
                               /\ CopiesIn(k, tasks') > CopiesIn(k, tasks)}

\* C11: every id placed in a synthesis request by bufferBatch or
\* bufferUntilSafe is absent from processedIds when the batch is assembled:
\* an id already in processedIds is never requested again.
C11_RequestedIdsUnprocessed ==
    [][\A k \in NewRequests : k.batch \cap processedIds' = {}]_vars

\* the cursor of the running background timer stands on a processed id while
\* other segments are unprocessed: its next batch assembly passes over that id
C11_Witness ==
    /\ isDubbing /\ ~isBuffering /\ timers > 0
    /\ nextFetchIndex \in processedIds
    /\ Cardinality(processedIds) < NumSubs(subtitles)

\* segment i is the one a seek to t has to select: it ends after t and its
\* predecessor, if any, does not
SeekTargetIndex(i, t) ==
    /\ i \in 0 .. NumSubs(subtitles) - 1
    /\ SubsOf(subtitles)[i + 1].end > t
    /\ i = 0 \/ SubsOf(subtitles)[i].end <= t

\* C12: for every seek to T over subtitles ordered by time, onSeek selects
\* the index s with subtitles[s].end > T and (s = 0 or subtitles[s-1].end
\* <= T), whenever such an index exists.
C12_SeekSelectsFirstSegmentEndingLater ==
    [][\A t \in Positions, ready \in BOOLEAN :
          (Seek(t, ready) /\ \E i \in Ids : SeekTargetIndex(i, t))
              => SeekTargetIndex(nextFetchIndex', t)]_vars

\* a seek into the gap before the third segment has selected index 2
C12_Witness ==
    /\ seekTarget # -1 /\ nextFetchIndex > 0
    /\ SeekTargetIndex(nextFetchIndex, seekTarget)
    /\ SubsOf(subtitles)[nextFetchIndex + 1].start > seekTarget

\* C13: immediately after a video-change reset (resetForNewVideo) the
\* cache, the queue and processedIds are empty, nextFetchIndex is 0, no clip
\* is current, and isDubbing and isBuffering are false.
C13_ResetClearsSession ==
    [][NavPoll =>
          /\ CachedIds' = {} /\ audioQueue' = << >> /\ processedIds' = {}
          /\ nextFetchIndex' = 0 /\ currentAudioPlayer' = None
          /\ ~isDubbing' /\ ~isBuffering']_vars

\* a session whose initial fill had completed has been reset
C13_Witness ==
    /\ currentVideoId = NoVideo /\ controlShown /\ timers > 0
    /\ CachedIds = {} /\ processedIds = {} /\ nextFetchIndex = 0

\* C14: an explicit stop (stopDubbing) resets the session like a
\* video-change reset: afterwards the cache, the queue and processedIds are
\* empty and nextFetchIndex is 0.
C14_StopClearsSession ==
    [][StopDubbing =>
          /\ CachedIds' = {} /\ audioQueue' = << >> /\ processedIds' = {}
          /\ nextFetchIndex' = 0]_vars

\* C15: a seek on the same video never removes or replaces an entry of the
\* segment cache: every clip retrievable by id before onSeek is retrievable
\* with the same content after it.
C15_SeekKeepsCache ==
    [][\A t \in Positions, ready \in BOOLEAN :
          Seek(t, ready) => \A i \in CachedIds : audioCache'[i] = audioCache[i]]_vars

\* after a seek behind a cached clip that clip is in the cache and not in
\* the queue
C15_Witness ==
    /\ seekTarget # -1
    /\ \E i \in CachedIds :
          /\ ClipEnd(audioCache[i]) <= seekTarget
          /\ \A j \in DOMAIN audioQueue : audioQueue[j].id # i

\* C16: after a stop or a video-change reset, the first tick of the
\* background timer issues no synthesis request and cancels the timer, even
\* if start_dubbing is received again before that tick.
C16_StaleTimerCancelled ==
    [][TimerTick(TRUE) => (timers' = timers - 1 /\ tasks' = tasks)]_vars

\* C17: in the state in which a stop or video-change reset handler returns
\* no clip is sounding and the current clip is none, and no clip starts
\* sounding afterwards until the next start_dubbing.
C17_SilentAfterStopOrReset ==
    [][/\ (StopDubbing \/ NavPoll) =>
              (SoundingElements' = 0 /\ currentAudioPlayer' = None)
       /\ (~isDubbing /\ ~isDubbing') => SoundingElements' <= SoundingElements]_vars

\* C18: when a synthesis request fails, the cache, the queue and
\* processedIds are left unchanged and the segments of the failed batch stay
\* reachable by the scheduler's cursor (nextFetchIndex is not beyond them),
\* so that a later tick requests them again.
C18_FailedBatchStaysReachable ==
    [][\A k \in BagToSet(tasks), ready \in BOOLEAN :
          Response(k, FALSE, ready) =>
              /\ UNCHANGED <<audioCache, audioQueue, processedIds>>
              /\ \A j \in k.batch : j \in processedIds' \/ nextFetchIndex' <= j]_vars

\* C19: after a synthesis request fails, no further synthesis request is
\* issued before the next timer tick or clock observation: the handling of
\* the failure itself (in particular the fill loop of startProcess) sends
\* nothing.
C19_NoRequestOnFailure ==
    [][\A k \in BagToSet(tasks), ready \in BOOLEAN :
          Response(k, FALSE, ready) => NewRequests = {}]_vars

\* C20: if the subtitle fetch returns an empty array (or fails) the session
\* never starts: the handler leaves isDubbing false, issues no synthesis
\* request and starts no background timer, and as long as isDubbing stays
\* false no clip is played.
C20_NoSubtitlesNoSession ==
    [][/\ \A k \in BagToSet(tasks) :
              SubtitlesArrive(k, FALSE) =>
                  /\ ~isDubbing' /\ NewRequests = {} /\ timers' = timers
                  /\ currentAudioPlayer' = currentAudioPlayer
       /\ (~isDubbing /\ ~isDubbing') =>
              (currentAudioPlayer' = None \/ currentAudioPlayer' = currentAudioPlayer
               \/ currentAudioPlayer' = Finished(currentAudioPlayer)
               \/ currentAudioPlayer' = Errored(currentAudioPlayer))]_vars

\* startProcess has returned because no subtitles came back
C20_Witness ==
    /\ subtitles = NoVideo /\ currentVideoId # NoVideo
    /\ ~isDubbing /\ controlShown
    /\ tasks = EmptyBag

(***************************************************************************)
(* Playback selector and audio controller: failures, ticks, slot times     *)
(***************************************************************************)
\* C21: when the start of the current clip's audio has failed, a tick on which
\* the next clip of the queue is due hands that clip to the audio controller
C21_FailedClipSkipped ==
    [][\A t \in Positions, ready \in BOOLEAN :
          (/\ Tick(t, ready)
           /\ isDubbing
           /\ currentAudioPlayer # None /\ currentAudioPlayer.failed
           /\ audioQueue # << >>
           /\ ShouldPlay(Head(SortById(audioQueue)), t))
          => /\ currentAudioPlayer'.clip = Head(SortById(audioQueue))
             /\ ~currentAudioPlayer'.failed
             /\ Len(audioQueue') = Len(audioQueue) - 1]_vars

\* the forward window of a seek with target index s, written out
ForwardWindow(s) == {i \in Ids : i >= s /\ i < s + SEEK_WINDOW /\ i < NumSubs(subtitles)}

\* q holds exactly the cached clips of the ids in W, each once, in ascending
\* order of slot start
IsCachedWindow(q, W, cache) ==
    /\ Len(q) = Cardinality({i \in W : cache[i] # None})
    /\ \A i \in W : cache[i] # None => \E k \in 1 .. Len(q) : q[k] = cache[i]
    /\ \A k \in 1 .. (Len(q) - 1) : ClipStart(q[k]) <= ClipStart(q[k + 1])

\* C22: after a seek whose target index is s, the queue is exactly the cached
\* clips with ids in [s, min(s+20, N)) in ascending slot order; and when every
\* segment of that window is cached, the seek sends no synthesis request.
C22_SeekQueueIsCachedWindow ==
    [][\A t \in Positions \cup LongPositions, ready \in BOOLEAN, s \in Ids :
          (Seek(t, ready) /\ SeekTargetIndex(s, t))
              => /\ IsCachedWindow(audioQueue', ForwardWindow(s), audioCache)
                 /\ (\A i \in ForwardWindow(s) : audioCache[i] # None) => tasks' = tasks]_vars

\* a seek has rebuilt the queue from a cache that holds clips beyond the
\* window: the queue has the SEEK_WINDOW clips of the window and no request
\* was needed
C22_Witness ==
    /\ seekTarget # -1 /\ SeekTargetIndex(nextFetchIndex, seekTarget)
    /\ Len(audioQueue) = SEEK_WINDOW
    /\ \E i \in CachedIds : i >= nextFetchIndex + SEEK_WINDOW
    /\ IsCachedWindow(audioQueue, ForwardWindow(nextFetchIndex), audioCache)
    /\ tasks = EmptyBag

\* C23: after a seek that finds no cached clip in the forward window, a
\* synthesis request covering the target index is outstanding when the
\* handler returns (and the clip of the target index then reaches the queue
\* when that request succeeds).
C23_SeekRequestsTarget ==
    [][\A t \in Positions \cup LongPositions, ready \in BOOLEAN, s \in Ids :
          (/\ Seek(t, ready)
           /\ SeekTargetIndex(s, t)
           /\ \A i \in ForwardWindow(s) : audioCache[i] = None)
          => \E k \in SynthTasks' : s \in k.batch]_vars

\* position t lies past the last segment of the loaded subtitles
PastLastSegment(t) ==
    /\ NumSubs(subtitles) > 0
    /\ t >= SubsOf(subtitles)[NumSubs(subtitles)].end

\* C24: a seek to a position past the last segment leaves the queue, the
\* cache, processedIds and nextFetchIndex unchanged and sends no synthesis
\* request.
C24_SeekPastEndIsNoOp ==
    [][\A t \in Positions \cup LongPositions, ready \in BOOLEAN :
          (Seek(t, ready) /\ PastLastSegment(t))
              => /\ audioQueue' = audioQueue
                 /\ audioCache' = audioCache
                 /\ processedIds' = processedIds
                 /\ nextFetchIndex' = nextFetchIndex
                 /\ tasks' = tasks]_vars

\* a seek past the last segment has happened in a session whose queue and
\* cache hold clips and whose fetch cursor is not at 0
C24_Witness ==
    /\ seekTarget # -1 /\ PastLastSegment(seekTarget) /\ currentTime = seekTarget
    /\ isDubbing
    /\ audioQueue # << >> /\ CachedIds # {} /\ nextFetchIndex > 0

\* headroom at position t: end of segment nextFetchIndex-1 minus t
Headroom(t) == SubsOf(subtitles)[nextFetchIndex].end - t

\* segments from the fetch cursor on that no request has covered
Unrequested == {i \in Ids : i >= nextFetchIndex /\ i < NumSubs(subtitles) /\ i \notin processedIds}

\* a clock tick or a timer firing
TickOrTimer ==
    \/ \E t \in Positions, ready \in BOOLEAN : Tick(t, ready) \/ TickPlayRefused(t, ready)
    \/ \E stale \in BOOLEAN : TimerTick(stale)

\* C25: on a clock tick where the headroom is below MIN_BUFFER_SEC, no batch
\* is in flight and unrequested segments remain, exactly one synthesis
\* request is issued; and while such a request is outstanding, no clock tick
\* and no timer firing issues another.
C25_OneRequestOnLowHeadroom ==
    /\ [][\A t \in Positions, ready \in BOOLEAN :
             (/\ Tick(t, ready) \/ TickPlayRefused(t, ready)
              /\ isDubbing
              /\ nextFetchIndex >= 1 /\ nextFetchIndex <= NumSubs(subtitles)
              /\ Headroom(t) < MIN_BUFFER_SEC
              /\ SynthTasks = {}
              /\ Unrequested # {})
             => /\ BagCardinality(tasks') = BagCardinality(tasks) + 1
                /\ \E k \in SynthTasks' : k.kind = "low" /\ k.batch \subseteq Unrequested]_vars
    /\ [][((\E k \in SynthTasks : k.kind = "low") /\ TickOrTimer) => tasks' = tasks]_vars

\* the request of a low-headroom tick is outstanding, alone, in a running
\* session whose video plays (so that ticks go on)
C25_Witness ==
    /\ isDubbing /\ ~videoPaused /\ ~hung /\ isBuffering
    /\ SynthTasks # {} /\ \A k \in SynthTasks : k.kind = "low"
    /\ Outstanding = 1
    /\ timers - staleTimers > 0

\* the startProcess call of the present session has not left its fill loop:
\* it awaits the subtitles or the response of a fill batch
FillRunning == \E k \in BagToSet(tasks) : k.kind \in {"subs", "fill"} /\ ~k.stale

\* a handler other than startProcess runs to its next suspension point:
\* onSeek, or bufferUntilSafe or a timer callback after its response
OtherHandlerStep ==
    \/ \E t \in Positions \cup LongPositions, ready \in BOOLEAN : Seek(t, ready)
    \/ \E k \in SynthTasks, ok \in BOOLEAN, ready \in BOOLEAN :
           k.kind # "fill" /\ Response(k, ok, ready)

\* the queue holds min(30, N) clips, or every segment is processed or in a
\* request that is outstanding
FillTargetMet ==
    \/ Len(audioQueue) >= Min(PREBUFFER_SEGMENTS, NumSubs(subtitles))
    \/ \A i \in 0 .. NumSubs(subtitles) - 1 :
           i \in processedIds \/ \E k \in SynthTasks : i \in k.batch

\* C26: after start_dubbing no handler other than startProcess starts the
\* playback of the video (video.play() on the paused video) before the initial
\* fill has finished, i.e. while the fill loop still awaits a batch and neither
\* the queue holds min(30, N) clips nor every segment has been requested.
C26_NoPlaybackBeforeFillDone ==
    [][(OtherHandlerStep /\ isDubbing /\ videoPaused /\ ~videoPaused')
          => (~FillRunning' \/ FillTargetMet')]_vars

\* C27: while a clip is sounding, a clock tick never changes the current clip
\* and never removes an element from the queue.
C27_TickLeavesSoundingClip ==
    [][\A t \in Positions, ready \in BOOLEAN :
          ((Tick(t, ready) \/ TickPlayRefused(t, ready)) /\ SoundingElements > 0)
              => /\ currentAudioPlayer' = currentAudioPlayer
                 /\ Len(audioQueue') = Len(audioQueue)]_vars

\* a clock tick, whether or not the browser lets the clip start
TickStep == \E t \in Positions, ready \in BOOLEAN : Tick(t, ready) \/ TickPlayRefused(t, ready)

\* a clip leaves the queue and a new audio element for it becomes current
Handing ==
    /\ currentAudioPlayer' # None /\ currentAudioPlayer' # currentAudioPlayer
    /\ ~currentAudioPlayer'.ended
    /\ Len(audioQueue') = Len(audioQueue) - 1
    /\ \E k \in 1 .. Len(audioQueue) : audioQueue[k] = currentAudioPlayer'.clip

\* C28: a clip is handed to the audio controller only on a tick where the
\* session is active, the video is not paused and the play position is at
\* least the clip's slot start minus the lead tolerance; on a tick where the
\* head clip (lowest id) is not yet due, it stays in the queue.
C28_HandedOnlyWhenDue ==
    /\ [][Handing => /\ TickStep
                     /\ isDubbing /\ ~videoPaused
                     /\ currentTime' >= ClipStart(currentAudioPlayer'.clip) - LEAD_TOLERANCE]_vars
    /\ [][(/\ TickStep /\ audioQueue # << >>
           /\ currentTime' < ClipStart(Head(SortById(audioQueue))) - LEAD_TOLERANCE)
          => /\ Len(audioQueue') = Len(audioQueue)
             /\ \E k \in 1 .. Len(audioQueue') : audioQueue'[k] = Head(SortById(audioQueue))]_vars

\* clip 0 was handed over and has ended, the video plays on, and the head of
\* the queue, not yet due, is still waiting
C28_Witness ==
    /\ isDubbing /\ ~videoPaused /\ ~hung
    /\ lastHanded # -1
    /\ currentAudioPlayer # None /\ currentAudioPlayer.ended
    /\ currentAudioPlayer.clip.id = lastHanded
    /\ currentTime >= ClipStart(currentAudioPlayer.clip) - LEAD_TOLERANCE
    /\ audioQueue # << >>
    /\ ~ShouldPlay(Head(SortById(audioQueue)), currentTime)

\* C29: the slot time handed to the audio controller with a clip is
\* max(slotEnd - position, 0.5), hence strictly positive.
C29_SlotTimeFloored ==
    [][Handing =>
          LET rest == ClipEnd(currentAudioPlayer'.clip) - currentTime'
          IN /\ currentAudioPlayer'.slot = IF rest > MIN_SLOT THEN rest ELSE MIN_SLOT
             /\ currentAudioPlayer'.slot > 0]_vars

\* a clip was handed over at a position past the end of its slot and got the
\* floor as its slot time
C29_Witness ==
    /\ currentAudioPlayer # None /\ ~currentAudioPlayer.ended
    /\ currentAudioPlayer.clip.id = lastHanded
    /\ ClipEnd(currentAudioPlayer.clip) - currentTime <= 0
    /\ currentAudioPlayer.slot = MIN_SLOT

(***************************************************************************)
(* Playback rate.  A rate is a fraction <<n, k>>; the audio durations and  *)
(* the expected rates (in hundredths) of the three clips of video S are    *)
(* those of the worked example: audio of 3, 2 and 5 s, rates 1.5, 1, 1.25. *)
(***************************************************************************)
ScenarioDuration == <<30, 20, 50>>
ScenarioRate == <<150, 100, 125>>

\* the metadata of the current element has been loaded
RateChosen == currentAudioPlayer # None /\ currentAudioPlayer.duration # NoDuration

\* the current element was handed over at the start of its slot
AtSlotStart ==
    currentAudioPlayer.slot = ClipEnd(currentAudioPlayer.clip) - ClipStart(currentAudioPlayer.clip)

\* C30: the playback rate of a clip is min(audioDuration / availableSlotTime,
\* 2.0) when audioDuration > availableSlotTime and availableSlotTime > 0.3 s,
\* and 1 otherwise; it lies in [1, 2]; and the clips of video S with audio of
\* 3, 2 and 5 s, handed over at their slot starts, get the rates 1.5, 1, 1.25.
C30_PlaybackRateFormula ==
    RateChosen =>
        LET d == currentAudioPlayer.duration
            m == currentAudioPlayer.slot
            n == currentAudioPlayer.rate[1]
            k == currentAudioPlayer.rate[2]
            c == currentAudioPlayer.clip
        IN /\ k > 0
           /\ IF d > m /\ m > 3
              THEN IF d <= 2 * m THEN n * m = d * k ELSE n = 2 * k
              ELSE n = k
           /\ k <= n /\ n <= 2 * k
           /\ (c.vid = "S" /\ AtSlotStart /\ d = ScenarioDuration[c.id + 1])
                 => 100 * n = ScenarioRate[c.id + 1] * k

\* the third clip of video S, handed over at its slot start (4 s left) with
\* audio of 5 s, plays at rate 1.25
C30_Witness ==
    /\ RateChosen
    /\ currentAudioPlayer.clip = Clip(2, "S") /\ AtSlotStart
    /\ currentAudioPlayer.duration = 50
    /\ currentAudioPlayer.rate = <<50, 40>>

(***************************************************************************)
(* Pause and resume, the fill loop, the idle engine, the fetch cursor      *)
(***************************************************************************)
\* the delivery of a queued pause (play) event of the video
PauseEventStep == VideoEvent /\ OldestEvent = "pause"
PlayEventStep == VideoEvent /\ OldestEvent = "play"

\* the video is paused and its pause event has been delivered
PauseDelivered == videoPaused /\ pendingEvents = 0

\* C31: while a session is active, a video pause event pauses the current
\* clip and a video play event resumes it, so that whenever the video is
\* paused (and its pause event has been handled) no clip is sounding; a seek
\* never resumes the clip that was current before it.
C31_PauseMirrorsVideo ==
    [][/\ (PauseEventStep /\ isDubbing) => ~Sounding(currentAudioPlayer')
       /\ (PlayEventStep /\ isDubbing /\ currentAudioPlayer # None
           /\ currentAudioPlayer.paused /\ ~currentAudioPlayer.failed)
              => Sounding(currentAudioPlayer')
       /\ (\E t \in Positions, ready \in BOOLEAN : Seek(t, ready))
              => (currentAudioPlayer' = None /\ SoundingElements' <= detachedSounding)
       /\ (isDubbing' /\ PauseDelivered') => SoundingElements' = 0]_vars

\* C32: the initial fill loop of startProcess always terminates, for every
\* reachable session state in which start_dubbing is received: it never
\* reaches an iteration in which bufferBatch sends nothing while the loop
\* condition stays true (such an iteration repeats for ever).
C32_FillLoopTerminates == ~hung

\* an event of the page is handled: a clock tick, a seek, a delivered pause
\* or play event, or a firing of a background timer
PageEventStep ==
    \/ \E t \in Positions, ready \in BOOLEAN :
           Tick(t, ready) \/ TickPlayRefused(t, ready) \/ Seek(t, ready)
    \/ VideoEvent
    \/ \E stale \in BOOLEAN : TimerTick(stale)

\* C33: while isDubbing is false (before the first start, after a stop, after
\* a reset) no synthesis request is issued and the engine does not start
\* video playback, whatever events occur (ticks, seeks, pause/play, timer
\* firings).
C33_IdleEngineIsPassive ==
    [][(PageEventStep /\ ~isDubbing)
          => /\ NewRequests = {}
             /\ ~(videoPaused /\ ~videoPaused')]_vars

\* the target index of the last seek of this session (-1: the seek returned
\* early)
LastSeekIndex == SeekIndex(subtitles, seekTarget)

\* C34: after a seek sets nextFetchIndex to the target index s,
\* nextFetchIndex stays >= s until the next seek or reset; the completion of
\* a batch that was requested before the seek does not move the fetch cursor
\* back to the old window.
C34_CursorNotBeforeSeekTarget ==
    [][(/\ seekTarget # -1 /\ LastSeekIndex # -1
        /\ nextFetchIndex >= LastSeekIndex
        /\ seekTarget' = seekTarget /\ subtitles' = subtitles)
       => nextFetchIndex' >= LastSeekIndex]_vars

(***************************************************************************)
(* Change of video, timers, the buffering flag                             *)
(***************************************************************************)
\* start_dubbing is received for a video other than that of the previous
\* session: the navigation poll has reset the manager (currentVideoId is
\* null, as before the first start) or startProcess finds another id
StartsOtherVideo == StartDubbing /\ (currentVideoId = NoVideo \/ currentVideoId # url)

\* C36: whenever start_dubbing begins synthesis for a video different from
\* the previous session's video, the cache, the queue and processedIds hold
\* no entry of the previous video and nextFetchIndex is 0, whether the change
\* was detected by the navigation poll or by startProcess's own video-id
\* comparison.
C36_NewVideoStartsClean ==
    [][StartsOtherVideo
          => /\ CachedIds' = {} /\ audioQueue' = << >> /\ processedIds' = {}
             /\ nextFetchIndex' = 0]_vars

\* C37: at most one background replenishment timer is active at any time,
\* for any sequence of start_dubbing, stop and reset events (including
\* start_dubbing received twice, or a stop followed by a start before the old
\* timer's next tick).
C37_AtMostOneTimer == timers <= 1

(***************************************************************************)
(* Progress.  The server answers every request, the browser delivers every *)
(* queued event and fires every active interval timer: weak fairness of    *)
(* these steps.  For the responses the condition is written out with       *)
(* ResponseDue, which implies that a response can be handled.              *)
(***************************************************************************)
\* the response of some outstanding synthesis request arrives
ResponseStep == \E k \in BagToSet(tasks), ready \in BOOLEAN : Response(k, TRUE, ready)

\* a synthesis request is outstanding and its caller can continue
ResponseDue == ~hung /\ SynthTasks # {} /\ pendingEvents = 0

Fairness ==
    /\ WF_vars(\E k \in BagToSet(tasks) : SubtitlesArrive(k, TRUE))
    /\ ([]<>(~ResponseDue) \/ []<><<ResponseStep>>_vars)
    /\ WF_vars(\E stale \in BOOLEAN : TimerTick(stale))
    /\ WF_vars(VideoEvent)

\* the sessions of SpecSeekWindow, with progress
SpecSeekWindowLive == SpecSeekWindow /\ Fairness

\* the last user command, the n-th, was a seek to t that found a target index
SeekSettled(t, n) == seekTarget = t /\ userEvents = n /\ LastSeekIndex # -1

\* every segment of the forward window of the last seek has its clip in the cache
WindowCached == \A i \in ForwardWindow(LastSeekIndex) : audioCache[i] # None

\* C35: after a seek with target index s, if every synthesis request
\* succeeds and no further seek occurs, every segment of the forward window
\* [s, min(s+20, N)) that was not cached is eventually requested and its
\* clip eventually enters the cache.
C35_SeekWindowEventuallyCached ==
    \A t \in LongPositions, n \in 2 .. MaxSeekWindowEvents :
        SeekSettled(t, n) ~> (WindowCached \/ userEvents # n)

(***************************************************************************)
(* The extension is loaded on the page of video C; the viewer starts the   *)
(* dubbing (up to MaxFullEvents times) and neither seeks nor stops nor     *)
(* leaves the page, and every request succeeds.  The video plays and its   *)
(* clips are handed out and end; the ended callback of a clip, which only  *)
(* clears the player reference, is left to the other specifications.       *)
(***************************************************************************)
\* the position the clock of video C reports
FullPositions == {1050}

FullBudget == userEvents < MaxFullEvents

NextFull ==
    \/ FullBudget /\ StartDubbing
    \/ \E k \in BagToSet(tasks) : SubtitlesArrive(k, TRUE)
    \/ \E k \in BagToSet(tasks), ready \in BOOLEAN : Response(k, TRUE, ready)
    \/ \E stale \in BOOLEAN : TimerTick(stale)
    \/ \E t \in FullPositions, ready \in BOOLEAN : Tick(t, ready)
    \/ VideoEvent
    \/ AudioEnds

SpecFull == InitLongVideo /\ [][NextFull]_vars

SpecFullLive == SpecFull /\ Fairness

AllProcessed == subtitles # NoVideo /\ processedIds = 0 .. (NumSubs(subtitles) - 1)
TimerRequests == {k \in SynthTasks : k.kind = "timer"}
SessionLoaded == isDubbing /\ subtitles # NoVideo

\* C38: in a session without seek, stop or reset in which every request
\* succeeds, from the moment the subtitles are loaded the engine reaches a
\* state from which on every subtitle index is in processedIds, no request
\* of the background timer is outstanding and the timer is cancelled.
C38_AllProcessedAndTimerCancelled ==
    SessionLoaded ~> [](AllProcessed /\ TimerRequests = {} /\ timers = 0)

(***************************************************************************)
(* The buffering flag                                                      *)
(***************************************************************************)
\* the requests of the callers that set isBuffering: the background timer
\* and bufferUntilSafe (called on a seek and on a low buffer).  stopDubbing
\* leaves the flag alone, so the request may be one sent before a stop.
OwnerRequests == {k \in SynthTasks : k.kind \in {"timer", "safe", "low"}}

\* C39: whenever isBuffering is true, a request sent by a caller that sets
\* the flag is outstanding; with no synthesis request outstanding the flag
\* is false.
C39_FlagHasOutstandingRequest ==
    /\ isBuffering => OwnerRequests # {}
    /\ SynthTasks = {} => ~isBuffering

\* the flag is held by the request of one caller while a request that does
\* not hold it (of the fill loop, or of the session before a reset) is
\* outstanding as well
C39_Witness ==
    /\ isBuffering /\ OwnerRequests # {}
    /\ \E k \in SynthTasks : k \notin OwnerRequests

(***************************************************************************)
(* The audio balance.  The popup sends the value of its balance slider as  *)
(* originalVolume with start_dubbing and, when the slider is moved, with   *)
(* update_balance.  this.originalVolume is written by both messages and    *)
(* read only right after a write, so it is not kept as state.              *)
(***************************************************************************)
\* the values the viewer sets the balance slider to
BalanceLevels == {20, 50}

\* message update_balance
UpdateBalance(v) ==
    /\ ~hung
    /\ balance # v
    /\ balance' = v
    /\ videoVolume' = IF isDubbing THEN v ELSE videoVolume
    /\ UNCHANGED <<url, currentVideoId, subtitles, isDubbing, isBuffering, nextFetchIndex,
                   processedIds, audioCache, audioQueue, currentAudioPlayer, detachedSounding,
                   detachedEnded, videoPaused, pendingEvents, currentTime, tasks, timers,
                   staleTimers, hung, seekTarget, lastHanded, controlShown, userEvents,
                   savedOriginalVolume, volumeBefore>>

(***************************************************************************)
(* The viewer starts and stops the dubbing of video A (up to               *)
(* MaxVolumeEvents commands) and moves the balance slider of the popup.    *)
(***************************************************************************)
VolumeBudget == userEvents < MaxVolumeEvents

NextVolume ==
    \/ VolumeBudget /\ StartDubbing
    \/ \E k \in BagToSet(tasks), ok \in BOOLEAN : SubtitlesArrive(k, ok)
    \/ \E k \in BagToSet(tasks), ok \in BOOLEAN, ready \in BOOLEAN : Response(k, ok, ready)
    \/ \E stale \in BOOLEAN : TimerTick(stale)
    \/ VideoEvent
    \/ \E v \in BalanceLevels : UpdateBalance(v)
    \/ VolumeBudget /\ StopDubbing

SpecVolume == Init /\ [][NextVolume]_vars

\* C40: a stop leaves the video at the volume it had before the first
\* start_dubbing since the last stop, whatever start_dubbing and
\* update_balance messages arrived in between.
C40_StopRestoresVolume ==
    [][StopDubbing => videoVolume' = volumeBefore]_vars
====
